---- MODULE Spec2Model ----
(***************************************************************************)
(* The tRPC server of pos-cashier-app: the zod input schemas, the router   *)
(* (healthcheck, login, getUser, createUser) and the three handlers.       *)
(*                                                                         *)
(* The server keeps no state of its own.  What the model keeps is what a   *)
(* client and the host see: the wall clock that `new Date()` reads, and    *)
(* the history of the calls made so far with what each one returned.       *)
(***************************************************************************)
EXTENDS Integers, Sequences, FiniteSets, TLC

VARIABLES now, history

vars == <<now, history>>

(***************************************************************************)
(* Bounds of the model.                                                    *)
(***************************************************************************)
\* The number of router calls in one run.
MaxCalls == 2

(***************************************************************************)
(* Literals of the source.                                                 *)
(***************************************************************************)
DEMO_USERNAME == "demo"
DEMO_PASSWORD == "demo123"
DEMO_ID == 1
DEMO_HASH == "$2b$10$demo_hash"
PLACEHOLDER_HASH == "$2b$10$placeholder_hash"
LOGIN_OK_MESSAGE == "Login successful"
LOGIN_FAILED_MESSAGE == "Invalid username or password"
USERNAME_REQUIRED == "Username is required"
PASSWORD_REQUIRED == "Password is required"
PASSWORD_TOO_SHORT == "Password must be at least 6 characters"
\* z.string().min(n): the least length each field accepts.
MinUsernameLength == 1
MinLoginPasswordLength == 1
MinNewPasswordLength == 6
\* Math.floor(Math.random() * 1000)
IdRange == 1000

\* JavaScript's null, the result of getUser for an unknown id.
null == [isNull |-> TRUE]

(***************************************************************************)
(* The inputs the calls are made with.                                     *)
(***************************************************************************)
Usernames == {"", "demo", "alice"}
Passwords == {"", "abc12", "demo123", PLACEHOLDER_HASH}
Credentials == [username : Usernames, password : Passwords]
UserIds == {-1, 0, 1, 500}

\* Math.random() returns a double in [0, 1); a sample k stands for the value
\* k / RandomScale.
RandomScale == 2 * IdRange
RandomSamples == {2, 3, 1000}

\* A Date is a number of milliseconds since 1970-01-01T00:00:00Z, kept here
\* as whole days and the milliseconds within the day (the count of
\* milliseconds of a present-day date does not fit a 32-bit integer).
MsPerDay == 24 * 60 * 60 * 1000
Date(day, ms) == [day |-> day, ms |-> ms]
\* 2025-09-30T23:59:59.999Z, 2025-10-01T00:00:00.000Z,
\* 2025-10-01T09:59:59.999Z, 2025-10-01T10:00:00.000Z
ClockSamples ==
    { Date(20361, MsPerDay - 1), Date(20362, 0),
      Date(20362, 10 * 3600000 - 1), Date(20362, 10 * 3600000) }

\* d1 is not later than d2.
DateLeq(d1, d2) == d1.day < d2.day \/ (d1.day = d2.day /\ d1.ms <= d2.ms)

(***************************************************************************)
(* Date.prototype.toISOString: "YYYY-MM-DDTHH:mm:ss.sssZ", as the sequence *)
(* of its character codes.                                                 *)
(***************************************************************************)
RECURSIVE Pow10(_)
Pow10(n) == IF n = 0 THEN 1 ELSE 10 * Pow10(n - 1)

\* n in decimal, zero-padded to width w.
Pad(n, w) == [i \in 1..w |-> 48 + ((n \div Pow10(w - i)) % 10)]

\* n in decimal with no padding.
RECURSIVE Decimal(_)
Decimal(n) == IF n < 10 THEN <<48 + n>> ELSE Decimal(n \div 10) \o <<48 + (n % 10)>>

\* The proleptic Gregorian date of a day number (days since 1970-01-01).
CivilFromDays(z0) ==
    LET z   == z0 + 719468
        era == z \div 146097
        doe == z - era * 146097
        yoe == (doe - (doe \div 1460) + (doe \div 36524) - (doe \div 146096)) \div 365
        doy == doe - (365 * yoe + (yoe \div 4) - (yoe \div 100))
        mp  == (5 * doy + 2) \div 153
        d   == doy - ((153 * mp + 2) \div 5) + 1
        m   == IF mp < 10 THEN mp + 3 ELSE mp - 9
        y   == yoe + era * 400 + (IF m <= 2 THEN 1 ELSE 0)
    IN  [year |-> y, month |-> m, date |-> d]

\* A faulty variant of toISOString: the fields are not zero-padded.
toISOStringUnpadded(d) ==
    LET c == CivilFromDays(d.day)
    IN  Decimal(c.year) \o <<45>> \o Decimal(c.month) \o <<45>> \o Decimal(c.date)
        \o <<84>> \o Decimal(d.ms \div 3600000)
        \o <<58>> \o Decimal((d.ms \div 60000) % 60)
        \o <<58>> \o Decimal((d.ms \div 1000) % 60)
        \o <<46>> \o Decimal(d.ms % 1000) \o <<90>>

toISOString(d) ==
    LET c == CivilFromDays(d.day)
    IN  Pad(c.year, 4) \o <<45>> \o Pad(c.month, 2) \o <<45>> \o Pad(c.date, 2)
        \o <<84>> \o Pad(d.ms \div 3600000, 2)
        \o <<58>> \o Pad((d.ms \div 60000) % 60, 2)
        \o <<58>> \o Pad((d.ms \div 1000) % 60, 2)
        \o <<46>> \o Pad(d.ms % 1000, 3) \o <<90>>

\* s <= t for two strings, as JavaScript compares them: by code unit, a
\* proper prefix being the smaller.
StringLeq(s, t) ==
    \/ /\ Len(s) <= Len(t)
       /\ \A i \in 1..Len(s) : s[i] = t[i]
    \/ \E i \in 1..Len(s) :
          /\ i <= Len(t)
          /\ \A k \in 1..(i - 1) : s[k] = t[k]
          /\ s[i] < t[i]

(***************************************************************************)
(* The zod schemas: the issues a parse raises; the parse succeeds when     *)
(* there are none.                                                         *)
(***************************************************************************)
loginInputSchema(input) ==
    (IF Len(input.username) >= MinUsernameLength THEN {}
     ELSE {[path |-> "username", message |-> USERNAME_REQUIRED]})
    \cup
    (IF Len(input.password) >= MinLoginPasswordLength THEN {}
     ELSE {[path |-> "password", message |-> PASSWORD_REQUIRED]})

\* A faulty variant of createUserInputSchema: one character too lenient.
createUserInputSchemaMin5(input) ==
    (IF Len(input.username) >= MinUsernameLength THEN {}
     ELSE {[path |-> "username", message |-> USERNAME_REQUIRED]})
    \cup
    (IF Len(input.password) >= MinNewPasswordLength - 1 THEN {}
     ELSE {[path |-> "password", message |-> PASSWORD_TOO_SHORT]})

createUserInputSchema(input) ==
    (IF Len(input.username) >= MinUsernameLength THEN {}
     ELSE {[path |-> "username", message |-> USERNAME_REQUIRED]})
    \cup
    (IF Len(input.password) >= MinNewPasswordLength THEN {}
     ELSE {[path |-> "password", message |-> PASSWORD_TOO_SHORT]})

\* z.object({ userId: z.number() })
getUserInputSchema(input) ==
    IF input.userId \in Int THEN {}
    ELSE {[path |-> "userId", message |-> "Expected number"]}

\* What a procedure answers when the parse of its input fails: the resolver
\* is not called and the caller gets a BAD_REQUEST error with the issues.
ValidationError(issues) == [code |-> "BAD_REQUEST", issues |-> issues]

(***************************************************************************)
(* The handlers.                                                           *)
(***************************************************************************)
\* Faulty variants of login, each a slip the handler could have made; the
\* properties below are shown to tell them from login.
loginWrongId(input) ==
    IF input.username = DEMO_USERNAME /\ input.password = DEMO_PASSWORD
    THEN [success |-> TRUE, message |-> LOGIN_OK_MESSAGE,
          user |-> [id |-> 0, username |-> DEMO_USERNAME]]
    ELSE [success |-> FALSE, message |-> LOGIN_FAILED_MESSAGE]

loginEitherMatches(input) ==
    IF input.username = DEMO_USERNAME \/ input.password = DEMO_PASSWORD
    THEN [success |-> TRUE, message |-> LOGIN_OK_MESSAGE,
          user |-> [id |-> DEMO_ID, username |-> DEMO_USERNAME]]
    ELSE [success |-> FALSE, message |-> LOGIN_FAILED_MESSAGE]

loginRevealing(input) ==
    IF input.username = DEMO_USERNAME /\ input.password = DEMO_PASSWORD
    THEN [success |-> TRUE, message |-> LOGIN_OK_MESSAGE,
          user |-> [id |-> DEMO_ID, username |-> DEMO_USERNAME]]
    ELSE IF input.username = DEMO_USERNAME
    THEN [success |-> FALSE, message |-> "Invalid password"]
    ELSE [success |-> FALSE, message |-> "Unknown username"]

\* A login that looks the credentials up among the users created so far.
loginStored(input) ==
    IF \/ input.username = DEMO_USERNAME /\ input.password = DEMO_PASSWORD
       \/ \E i \in 1..Len(history) :
             /\ history[i].proc = "createUser"
             /\ history[i].ran
             /\ history[i].input = input
    THEN [success |-> TRUE, message |-> LOGIN_OK_MESSAGE,
          user |-> [id |-> DEMO_ID, username |-> input.username]]
    ELSE [success |-> FALSE, message |-> LOGIN_FAILED_MESSAGE]

login(input) ==
    IF input.username = DEMO_USERNAME /\ input.password = DEMO_PASSWORD
    THEN [success |-> TRUE, message |-> LOGIN_OK_MESSAGE,
          user |-> [id |-> DEMO_ID, username |-> DEMO_USERNAME]]
    ELSE [success |-> FALSE, message |-> LOGIN_FAILED_MESSAGE]

\* A faulty variant of getUser: any positive id finds a user.
getUserAnyPositive(userId, date) ==
    IF userId >= 1
    THEN [id |-> userId, username |-> "demo", password_hash |-> DEMO_HASH,
          created_at |-> date]
    ELSE null

\* `date` is what new Date() gives at the call.
getUser(userId, date) ==
    IF userId = 1
    THEN [id |-> 1, username |-> "demo", password_hash |-> DEMO_HASH,
          created_at |-> date]
    ELSE null

\* `random` is what Math.random() gives at the call, in units of
\* 1 / RandomScale; `date` is what new Date() gives.
createUser(input, random, date) ==
    [id |-> (random * IdRange) \div RandomScale,
     username |-> input.username,
     password_hash |-> PLACEHOLDER_HASH,
     created_at |-> date]

healthcheck(date) == [status |-> "ok", timestamp |-> toISOString(date)]

(***************************************************************************)
(* The state machine: one action per procedure of appRouter, and the host  *)
(* moving the wall clock.                                                  *)
(***************************************************************************)
Init ==
    /\ now \in ClockSamples
    /\ history = <<>>

\* The wall clock reads another value: time passes, or the host sets it
\* (new Date() reads the system's real-time clock, which may be set back).
ClockChange ==
    /\ \E t \in ClockSamples : t # now /\ now' = t
    /\ UNCHANGED history

RouterHealthcheck ==
    /\ Len(history) < MaxCalls
    /\ history' = Append(history,
           [proc |-> "healthcheck", ok |-> TRUE, ran |-> TRUE,
            output |-> healthcheck(now), at |-> now])
    /\ UNCHANGED now

RouterLogin(input) ==
    /\ Len(history) < MaxCalls
    /\ history' = Append(history,
           IF loginInputSchema(input) = {}
           THEN [proc |-> "login", input |-> input, ok |-> TRUE, ran |-> TRUE,
                 output |-> login(input)]
           ELSE [proc |-> "login", input |-> input, ok |-> FALSE, ran |-> FALSE,
                 output |-> ValidationError(loginInputSchema(input))])
    /\ UNCHANGED now

RouterGetUser(input) ==
    /\ Len(history) < MaxCalls
    /\ history' = Append(history,
           IF getUserInputSchema(input) = {}
           THEN [proc |-> "getUser", input |-> input, ok |-> TRUE, ran |-> TRUE,
                 output |-> getUser(input.userId, now)]
           ELSE [proc |-> "getUser", input |-> input, ok |-> FALSE, ran |-> FALSE,
                 output |-> ValidationError(getUserInputSchema(input))])
    /\ UNCHANGED now

RouterCreateUser(input, random) ==
    /\ Len(history) < MaxCalls
    /\ history' = Append(history,
           IF createUserInputSchema(input) = {}
           THEN [proc |-> "createUser", input |-> input, ok |-> TRUE, ran |-> TRUE,
                 output |-> createUser(input, random, now)]
           ELSE [proc |-> "createUser", input |-> input, ok |-> FALSE, ran |-> FALSE,
                 output |-> ValidationError(createUserInputSchema(input))])
    /\ UNCHANGED now

Next ==
    \/ ClockChange
    \/ RouterHealthcheck
    \/ \E input \in Credentials : RouterLogin(input)
    \/ \E userId \in UserIds : RouterGetUser([userId |-> userId])
    \/ \E input \in Credentials, random \in RandomSamples : RouterCreateUser(input, random)

Spec == Init /\ [][Next]_vars

(***************************************************************************)
(* The calls of the history.                                               *)
(***************************************************************************)
\* The calls made to procedure p, and those among them whose handler ran.
Calls(p) == {i \in 1..Len(history) : history[i].proc = p}
Ran(p) == {i \in Calls(p) : history[i].ran}

IsDemoLogin(input) ==
    input.username = "demo" /\ input.password = "demo123"

IsUser(output) == DOMAIN output = {"id", "username", "password_hash", "created_at"}

(***************************************************************************)
(* C1: every login with username "demo" and password "demo123" returns     *)
(* success = true and a user with id 1 and username "demo", whatever was   *)
(* called before it.                                                       *)
(***************************************************************************)
C1_DemoLoginSucceeds ==
    \A i \in Calls("login") :
        IsDemoLogin(history[i].input) =>
            /\ history[i].ok
            /\ history[i].output.success = TRUE
            /\ "user" \in DOMAIN history[i].output
            /\ history[i].output.user.id = 1
            /\ history[i].output.user.username = "demo"

\* A demo login made after a createUser call for the same username.
C1_Witness ==
    /\ Len(history) = 2
    /\ history[1].proc = "createUser" /\ history[1].ran
    /\ history[1].input.username = "demo"
    /\ history[2].proc = "login" /\ IsDemoLogin(history[2].input)
    /\ history[2].output.success

(***************************************************************************)
(* C2: every login with a non-empty username and a non-empty password      *)
(* other than ("demo", "demo123") returns normally, with success = false   *)
(* and no user field; in every login response the user field is present    *)
(* exactly when success is true.                                           *)
(***************************************************************************)
C2_OtherLoginsFail ==
    /\ \A i \in Calls("login") :
          ( /\ Len(history[i].input.username) > 0
            /\ Len(history[i].input.password) > 0
            /\ ~IsDemoLogin(history[i].input) ) =>
              /\ history[i].ok
              /\ history[i].output.success = FALSE
              /\ "user" \notin DOMAIN history[i].output
    /\ \A i \in Ran("login") :
          ("user" \in DOMAIN history[i].output) <=> history[i].output.success

\* A failed login for the demo user and a successful one, in one run.
C2_Witness ==
    /\ \E i \in Ran("login") :
          /\ history[i].input = [username |-> "demo", password |-> "abc12"]
          /\ ~history[i].output.success
    /\ \E i \in Ran("login") : history[i].output.success

(***************************************************************************)
(* C3: every createUser whose input passes validation returns a User with  *)
(* the input's username and a password_hash different from the plaintext   *)
(* password.                                                               *)
(***************************************************************************)
C3_HashIsNotPlaintext ==
    \A i \in Ran("createUser") :
        /\ history[i].output.username = history[i].input.username
        /\ history[i].output.password_hash # history[i].input.password

(***************************************************************************)
(* C4: getUser(1) returns a User with id 1 and username "demo"; getUser of *)
(* any other integer returns null, as a normal result.                     *)
(***************************************************************************)
C4_GetUser ==
    \A i \in Calls("getUser") :
        /\ history[i].ok
        /\ IF history[i].input.userId = 1
           THEN /\ IsUser(history[i].output)
                /\ history[i].output.id = 1
                /\ history[i].output.username = "demo"
           ELSE history[i].output = null

\* getUser(1) found the demo user and getUser(500) found nothing.
C4_Witness ==
    /\ \E i \in Ran("getUser") :
          history[i].input.userId = 1 /\ IsUser(history[i].output)
    /\ \E i \in Ran("getUser") :
          history[i].input.userId = 500 /\ history[i].output = null

(***************************************************************************)
(* C5: a call to login with an empty username or an empty password, or to  *)
(* createUser with an empty username or a password of fewer than 6         *)
(* characters, fails with a validation error and its handler is not run.   *)
(***************************************************************************)
C5_InvalidInputNeverReachesHandler ==
    /\ \A i \in Calls("login") :
          (Len(history[i].input.username) = 0 \/ Len(history[i].input.password) = 0) =>
              /\ ~history[i].ok
              /\ ~history[i].ran
              /\ history[i].output.code = "BAD_REQUEST"
              /\ history[i].output.issues # {}
    /\ \A i \in Calls("createUser") :
          (Len(history[i].input.username) = 0 \/ Len(history[i].input.password) < 6) =>
              /\ ~history[i].ok
              /\ ~history[i].ran
              /\ history[i].output.code = "BAD_REQUEST"
              /\ history[i].output.issues # {}

\* A createUser with a 5-character password and a login with an empty
\* password were both refused.
C5_Witness ==
    /\ \E i \in Calls("createUser") :
          /\ history[i].input = [username |-> "alice", password |-> "abc12"]
          /\ ~history[i].ran
    /\ \E i \in Calls("login") :
          /\ history[i].input = [username |-> "demo", password |-> ""]
          /\ ~history[i].ran

(***************************************************************************)
(* C6: any two Users returned by createUser calls have different ids, and  *)
(* none has the id 1 of the demo user.                                     *)
(***************************************************************************)
C6_CreatedIdsUnique ==
    /\ \A i, j \in Ran("createUser") :
          i # j => history[i].output.id # history[j].output.id
    /\ \A i \in Ran("createUser") : history[i].output.id # 1

(***************************************************************************)
(* C7: a createUser call whose username is that of an existing user (the   *)
(* demo user, or a user an earlier createUser call returned) does not      *)
(* return a new User.                                                      *)
(***************************************************************************)
C7_DuplicateUsernameRejected ==
    \A j \in Calls("createUser") :
        ( \/ history[j].input.username = "demo"
          \/ \E i \in Ran("createUser") :
                i < j /\ history[i].output.username = history[j].input.username ) =>
            ~(history[j].ok /\ IsUser(history[j].output))

(***************************************************************************)
(* C8: any two failed logins with schema-valid inputs get responses that   *)
(* are equal in every field, whichever credential was wrong.               *)
(***************************************************************************)
C8_FailuresIndistinguishable ==
    \A i, j \in Ran("login") :
        (~history[i].output.success /\ ~history[j].output.success) =>
            history[i].output = history[j].output

\* One login failed on the username alone and another on the password alone.
C8_Witness ==
    /\ \E i \in Ran("login") :
          /\ history[i].input = [username |-> "alice", password |-> "demo123"]
          /\ ~history[i].output.success
    /\ \E i \in Ran("login") :
          /\ history[i].input = [username |-> "demo", password |-> "abc12"]
          /\ ~history[i].output.success

(***************************************************************************)
(* C9: every healthcheck returns status "ok", and the timestamp of each    *)
(* healthcheck is greater than or equal to that of every earlier one.      *)
(***************************************************************************)
C9_TimestampsNonDecreasing ==
    /\ \A i \in Calls("healthcheck") : history[i].output.status = "ok"
    /\ \A i, j \in Calls("healthcheck") :
          i < j => StringLeq(history[i].output.timestamp, history[j].output.timestamp)

(***************************************************************************)
(* C9, amended: every healthcheck returns status "ok", and the timestamp   *)
(* of a healthcheck is greater than or equal to that of every earlier one  *)
(* at which the wall clock did not read a later time.                      *)
(***************************************************************************)
C9_TimestampsFollowClock ==
    /\ \A i \in Calls("healthcheck") : history[i].output.status = "ok"
    /\ \A i, j \in Calls("healthcheck") :
          (i < j /\ DateLeq(history[i].at, history[j].at)) =>
              StringLeq(history[i].output.timestamp, history[j].output.timestamp)

\* Two healthchecks with the clock moving forward, over the end of a month,
\* between them.
C9_Witness ==
    /\ Len(history) = 2
    /\ history[1].proc = "healthcheck" /\ history[2].proc = "healthcheck"
    /\ history[1].at.day < history[2].at.day
    /\ history[1].output.timestamp # history[2].output.timestamp

(***************************************************************************)
(* C10: the handlers share no state.  Two logins with the same input get   *)
(* the same response and two getUser calls with the same id agree on       *)
(* found/null, id, username and password_hash, wherever they stand in the  *)
(* history; a login with the credentials of a user createUser returned     *)
(* earlier fails unless they are ("demo", "demo123"); getUser of an id     *)
(* createUser returned earlier yields null unless the id is 1.             *)
(***************************************************************************)
C10_NoSharedState ==
    /\ \A i, j \in Ran("login") :
          history[i].input = history[j].input => history[i].output = history[j].output
    /\ \A i, j \in Ran("getUser") :
          history[i].input = history[j].input =>
              /\ IsUser(history[i].output) <=> IsUser(history[j].output)
              /\ IsUser(history[i].output) =>
                    /\ history[i].output.id = history[j].output.id
                    /\ history[i].output.username = history[j].output.username
                    /\ history[i].output.password_hash = history[j].output.password_hash
    /\ \A i \in Ran("createUser"), j \in Ran("login") :
          (i < j /\ history[j].input = history[i].input
                 /\ ~IsDemoLogin(history[j].input)) =>
              ~history[j].output.success
    /\ \A i \in Ran("createUser"), j \in Ran("getUser") :
          (i < j /\ history[j].input.userId = history[i].output.id
                 /\ history[i].output.id # 1) =>
              history[j].output = null

\* A user was created and a login with the same credentials then failed.
C10_Witness ==
    /\ Len(history) = 2
    /\ history[1].proc = "createUser" /\ history[1].ran
    /\ history[2].proc = "login" /\ history[2].ran
    /\ history[2].input = history[1].input
    /\ ~history[2].output.success

====
